---------------------------- MODULE Spec2Model ----------------------------
(***************************************************************************)
(* Model of backend/main.py: a Flask relay with three routes               *)
(* (/api/search, /api/order/<id>, /health).  Each request fetches an       *)
(* OAuth token (POST) and then queries Dataverse (GET).                    *)
(*                                                                         *)
(* A text is a sequence of fragments; a fragment is a single character or  *)
(* an indivisible piece of template text such as "contains(".              *)
(* A handler is split where it blocks on the network, so that requests     *)
(* served by different threads interleave at those points.                 *)
(***************************************************************************)
EXTENDS Integers, Sequences, FiniteSets, TLC

VARIABLES config, reqs

vars == <<config, reqs>>

(***************************** bounds ***************************************)
\* longest query text q, in fragments
MaxLen == 3
\* upstream `value` arrays of every content up to this length
MaxShort == 2
\* longest upstream `value` array
MaxRows == 51
\* request slots served concurrently
NReq == 2

(***************************** JSON values **********************************)
JNull == [t |-> "null"]
JStr(s) == [t |-> "str", v |-> s]
JNum(n) == [t |-> "num", v |-> n]
JList(s) == [t |-> "list", v |-> s]
JObj(f) == [t |-> "object", v |-> f]
\* a body that is not JSON text
Garbage(s) == [t |-> "garbage", v |-> s]
EmptyObj == [k \in {} |-> JNull]

(***************************** configuration ********************************)
\* os.getenv of an unset variable; an f-string renders it as "None"
None == "None"

TABLE_NAME_default == "cr399_tables"

Configs ==
  { [TENANT_ID |-> "tenant", CLIENT_ID |-> "client", CLIENT_SECRET |-> "secret",
     DATAVERSE_URL |-> "https://org.crm.dynamics.com", TABLE_NAME |-> TABLE_NAME_default],
    [TENANT_ID |-> "tenant", CLIENT_ID |-> "client", CLIENT_SECRET |-> "secret",
     DATAVERSE_URL |-> "https://org.crm.dynamics.com", TABLE_NAME |-> "cr1e1_orders"],
    [TENANT_ID |-> None, CLIENT_ID |-> None, CLIENT_SECRET |-> None,
     DATAVERSE_URL |-> None, TABLE_NAME |-> TABLE_NAME_default] }

SELECT_COLS ==
  << "cr399_cr1e1_0003ausalesordersid", "cr399_cr1e1_no", "cr399_cr1e1_itemno",
     "cr399_cr1e1_customername", "cr399_cr1e1_customerno", "cr399_cr1e1_bincode",
     "cr399_cr1e1_externaldocumentno", "cr399_cr1e1_locationcode",
     "cr399_cr1e1_orderdate", "cr399_cr1e1_quantity", "cr399_cr1e1_saleinvoiceno",
     "cr399_cr1e1_salespersoncode", "cr399_cr1e1_shiptoaddress",
     "cr399_cr1e1_shiptoaddress2", "cr399_cr1e1_shiptocity",
     "cr399_cr1e1_shiptocountry", "cr399_cr1e1_shiptocountryregion",
     "cr399_cr1e1_shiptoname", "cr399_cr1e1_shiptophoneno",
     "cr399_cr1e1_shiptopostcode", "cr399_cr1e1_status",
     "cr399_cr1e1_totalinclvataud", "cr399_cr1e1_totalvataud",
     "cr399_cr1e1_trackingnumber", "cr399_cr1e1_type",
     "cr399_cr1e1_unitpriceincvat", "cr399_cr1e1_yourreference",
     "cr399_cr1e1_starshipitshipmentdate", "cr399_cr1e1_carriername",
     "cr399_cr1e1_carrierservice" >>

\* $top of the list query
Top == 50
\* timeouts of the two outbound calls, in seconds
TokenTimeout == 15
DataTimeout == 20

(***************************** text helpers *********************************)
Whitespace == {" ", "\t"}
Quote == "'"

\* str.strip(): drop leading and trailing whitespace
RECURSIVE lstrip(_)
lstrip(s) ==
  IF s # <<>> /\ Head(s) \in Whitespace THEN lstrip(Tail(s)) ELSE s

RECURSIVE rstrip(_)
rstrip(s) ==
  IF s # <<>> /\ s[Len(s)] \in Whitespace
  THEN rstrip(SubSeq(s, 1, Len(s) - 1))
  ELSE s

\* variant: q is taken as sent
strip_none(s) == s

strip(s) == rstrip(lstrip(s))

\* variant: quotes are left alone
safe_query_raw(s) == s

\* query.replace("'", "''")
RECURSIVE safe_query(_)
safe_query(s) ==
  IF s = <<>> THEN <<>>
  ELSE (IF Head(s) = Quote THEN <<Quote, Quote>> ELSE <<Head(s)>>)
       \o safe_query(Tail(s))

\* request.args.get(key, default)
args_get(args, key, default) ==
  IF key \in DOMAIN args THEN args[key] ELSE default

\* f"contains({column},'{safe}')"
contains_clause(column, safe) ==
  <<"contains(", column, ",", Quote>> \o safe \o <<Quote, ")">>

filter_map(safe) ==
  [name      |-> contains_clause("cr399_cr1e1_no", safe),
   external  |-> contains_clause("cr399_cr1e1_externaldocumentno", safe),
   reference |-> contains_clause("cr399_cr1e1_yourreference", safe)]

\* variant: the fallback is the last mapping
filter_expr_of_last(search_by, safe) ==
  IF search_by \in DOMAIN filter_map(safe)
  THEN filter_map(safe)[search_by]
  ELSE filter_map(safe)["reference"]

\* filter_map.get(search_by, filter_map["name"])
filter_expr_of(search_by, safe) ==
  IF search_by \in DOMAIN filter_map(safe)
  THEN filter_map(safe)[search_by]
  ELSE filter_map(safe)["name"]

(***************************** outcomes of calls ****************************)
Ok(v) == [ok |-> TRUE, val |-> v]
\* an exception that is not requests.HTTPError
Raise(type) == [ok |-> FALSE, exc |-> [type |-> type]]
\* requests.HTTPError carrying the response it was raised for
RaiseHTTP(reply) ==
  [ok |-> FALSE, exc |-> [type |-> "HTTPError", response |-> reply]]

\* variant: only server errors raise
raise_for_status_5xx(status) ==
  500 <= status /\ status < 600

\* Response.raise_for_status(): raises for 4xx and 5xx only
raise_for_status(status) ==
  \/ (400 <= status /\ status < 500)
  \/ (500 <= status /\ status < 600)

\* Response.text
text(reply) == reply.body

\* Response.json() succeeds
is_json(reply) == reply.body.t # "garbage"

\* str(e)
str_exc(exc) ==
  IF exc.type = "HTTPError"
  THEN <<"HTTPError", exc.response.status>>
  ELSE <<exc.type>>

\* requests raises MissingSchema for a URL without a scheme
has_scheme(base) == base # None

(***************************** outbound calls *******************************)
Pending == [kind |-> "pending"]

token_request(cfg) ==
  [method  |-> "POST",
   url     |-> <<"https://login.microsoftonline.com/", cfg.TENANT_ID,
                 "/oauth2/v2.0/token">>,
   data    |-> [grant_type    |-> "client_credentials",
                client_id     |-> cfg.CLIENT_ID,
                client_secret |-> cfg.CLIENT_SECRET,
                scope         |-> <<cfg.DATAVERSE_URL, "/.default">>],
   timeout |-> TokenTimeout]

\* variant: the token of an earlier request is kept and sent
data_headers_cached(token) ==
  [Authorization      |-> <<"Bearer ", "tokA">>,
   Accept             |-> "application/json",
   OData_MaxVersion   |-> "4.0",
   OData_Version      |-> "4.0",
   Prefer |-> "odata.include-annotations=OData.Community.Display.V1.FormattedValue"]

data_headers(token) ==
  [Authorization      |-> <<"Bearer ", token>>,
   Accept             |-> "application/json",
   OData_MaxVersion   |-> "4.0",
   OData_Version      |-> "4.0",
   Prefer |-> "odata.include-annotations=OData.Community.Display.V1.FormattedValue"]

search_request(cfg, token, filter_expr, select_cols) ==
  [method  |-> "GET",
   url     |-> [base   |-> cfg.DATAVERSE_URL,
                path   |-> "/api/data/v9.2/",
                table  |-> cfg.TABLE_NAME,
                select |-> select_cols,
                filter |-> filter_expr,
                top    |-> Top],
   headers |-> data_headers(token),
   timeout |-> DataTimeout]

order_request(cfg, token, order_id) ==
  [method  |-> "GET",
   url     |-> [base   |-> cfg.DATAVERSE_URL,
                path   |-> "/api/data/v9.2/",
                table  |-> cfg.TABLE_NAME,
                id     |-> order_id,
                select |-> SELECT_COLS],
   headers |-> data_headers(token),
   timeout |-> DataTimeout]

\* get_access_token(), from the reply to its POST on
get_access_token(reply) ==
  IF reply.kind = "timeout" THEN Raise("Timeout")
  ELSE IF raise_for_status(reply.status) THEN RaiseHTTP(reply)
  ELSE IF ~is_json(reply) THEN Raise("JSONDecodeError")
  ELSE IF reply.body.t = "object"
       THEN IF "access_token" \in DOMAIN reply.body.v
            THEN Ok(reply.body.v["access_token"].v)
            ELSE Raise("KeyError")
       ELSE Raise("TypeError")

\* variant: the value key is required
query_dataverse_strict(reply) ==
  IF reply.kind = "timeout" THEN Raise("Timeout")
  ELSE IF raise_for_status(reply.status) THEN RaiseHTTP(reply)
  ELSE IF ~is_json(reply) THEN Raise("JSONDecodeError")
  ELSE IF reply.body.t = "object"
       THEN IF "value" \in DOMAIN reply.body.v
            THEN Ok(reply.body.v["value"])
            ELSE Raise("KeyError")
       ELSE Raise("AttributeError")

\* query_dataverse(), from the reply to its GET on
query_dataverse(reply) ==
  IF reply.kind = "timeout" THEN Raise("Timeout")
  ELSE IF raise_for_status(reply.status) THEN RaiseHTTP(reply)
  ELSE IF ~is_json(reply) THEN Raise("JSONDecodeError")
  ELSE IF reply.body.t = "object"
       THEN IF "value" \in DOMAIN reply.body.v
            THEN Ok(reply.body.v["value"])
            ELSE Ok(JList(<<>>))
       ELSE Raise("AttributeError")

\* the GET of get_order, from its reply on
order_fetch(reply) ==
  IF reply.kind = "timeout" THEN Raise("Timeout")
  ELSE IF raise_for_status(reply.status) THEN RaiseHTTP(reply)
  ELSE IF ~is_json(reply) THEN Raise("JSONDecodeError")
  ELSE Ok(reply.body)

(***************************** responses ************************************)
NoResponse == [status |-> 0, body |-> JNull]

Response(status, body) == [status |-> status, body |-> body]

\* variant: every exception is reported as an upstream error
except_response_502(exc) ==
  Response(502, JObj([error  |-> JStr(str_exc(exc)),
                      detail |-> JStr(<<>>)]))

\* the two except clauses shared by search and get_order
except_response(exc) ==
  IF exc.type = "HTTPError"
  THEN Response(502, JObj([error  |-> JStr(str_exc(exc)),
                           detail |-> JStr(text(exc.response))]))
  ELSE Response(500, JObj([error |-> JStr(str_exc(exc))]))

\* variant: the rows are cut to the first Top before they are returned
search_success_capped(records) ==
  IF records.t = "list"
  THEN LET rows == SubSeq(records.v, 1,
                          IF Len(records.v) < Top THEN Len(records.v) ELSE Top)
       IN  Response(200, JObj([data |-> JList(rows), count |-> JNum(Len(rows))]))
  ELSE Response(500, JObj([error |-> JStr(<<"TypeError">>)]))

\* jsonify({"data": records, "count": len(records)}); len() of a JSON null
\* or number raises TypeError
search_success(records) ==
  IF records.t = "list"
  THEN Response(200, JObj([data |-> records, count |-> JNum(Len(records.v))]))
  ELSE except_response(Raise("TypeError").exc)

bad_request ==
  Response(400, JObj([error |-> JStr(<<"Query parameter 'q' is required.">>)]))

health_response == Response(200, JObj([status |-> JStr("ok")]))

(***************************** state ****************************************)
Slots == 1 .. NReq

Idle ==
  [pc |-> "idle", route |-> "none", args |-> EmptyObj, order_id |-> "",
   filter_expr |-> <<>>, calls |-> <<>>, response |-> NoResponse]

\* a worker takes a request only when it is not serving one
Free(r) == reqs[r].pc = "idle"

Issue(request) == [request |-> request, reply |-> Pending]

Answer(calls, reply) ==
  [calls EXCEPT ![Len(calls)] = [@ EXCEPT !.reply = reply]]

(***************************** environment **********************************)
Alphabet == {" ", "\t", Quote, "a", "contains("}

\* every text of at most n fragments
Texts(n) == UNION { [1 .. k -> Alphabet] : k \in 0 .. n }

\* query strings of /api/search: q and by each present or absent
SearchArgs(Qs, Bys) ==
  { [k \in D |-> IF k = "q" THEN q ELSE b] :
      D \in SUBSET {"q", "by"}, q \in Qs, b \in Bys }

HttpReply(status, body) == [kind |-> "http", status |-> status, body |-> body]
Timeout == [kind |-> "timeout"]

Row(no) == JObj([cr399_cr1e1_no |-> JStr(no)])
Rows == {Row("SO-1"), Row("SO-2")}

LongArray(n) == [i \in 1 .. n |-> IF i % 2 = 1 THEN Row("SO-1") ELSE Row("SO-2")]

ValueArrays ==
  UNION { [1 .. k -> Rows] : k \in 0 .. MaxShort }
  \cup { LongArray(n) : n \in (Top - 1) .. MaxRows }

ErrorDoc == JObj([error |-> JStr("invalid_client")])

TokenDoc(tok) == JObj([access_token |-> JStr(tok), token_type |-> JStr("Bearer")])

TokenBodies ==
  { Garbage(""), Garbage("<html>"), JObj(EmptyObj), ErrorDoc, JList(<<>>),
    TokenDoc("tokA"), TokenDoc("tokB") }

SearchBodies ==
  { Garbage("<html>"), JObj(EmptyObj), ErrorDoc, JList(<<>>),
    JObj([value |-> JNull]) }
  \cup { JObj([value |-> JList(a)]) : a \in ValueArrays }

OrderBodies == { Garbage("<html>"), ErrorDoc, JList(<<>>), Row("SO-1"), Row("SO-2") }

Statuses == {199, 200, 299, 300, 399, 400, 499, 500, 599, 600}

Replies(statuses, bodies) ==
  { HttpReply(s, b) : s \in statuses, b \in bodies } \cup {Timeout}

\* the full upstream, with a handful of requests
EnvFull ==
  [slots  |-> {1},
   args   |-> SearchArgs({<<>>, <<" ", "\t">>, <<"a">>, <<" ", "a", Quote>>},
                         {"name", "external", "reference", "bogus"}),
   ids    |-> {"guid-1", "guid-2"},
   token  |-> Replies(Statuses, TokenBodies),
   search |-> Replies(Statuses, SearchBodies),
   order  |-> Replies(Statuses, OrderBodies)]

\* every query string, with a handful of upstream replies
EnvFilter ==
  [slots  |-> {1},
   args   |-> SearchArgs(Texts(MaxLen),
                         {"name", "external", "reference", "bogus", ""}),
   ids    |-> {"guid-1"},
   token  |-> {HttpReply(200, TokenDoc("tokA")), HttpReply(401, ErrorDoc), Timeout},
   search |-> {HttpReply(200, JObj([value |-> JList(<<Row("SO-1")>>)])),
               HttpReply(503, Garbage("<html>"))},
   order  |-> {HttpReply(200, Row("SO-1")), HttpReply(404, ErrorDoc)}]

\* several requests in flight at once
EnvConc ==
  [slots  |-> Slots,
   args   |-> SearchArgs({<<"a">>, <<" ">>}, {"name"}),
   ids    |-> {"guid-1"},
   token  |-> {HttpReply(200, TokenDoc("tokA")), HttpReply(200, TokenDoc("tokB")),
               HttpReply(401, ErrorDoc)},
   search |-> {HttpReply(200, JObj([value |-> JList(<<Row("SO-1")>>)])),
               HttpReply(200, JObj([value |-> JList(<<Row("SO-2")>>)])),
               HttpReply(503, Garbage("<html>"))},
   order  |-> {HttpReply(200, Row("SO-1")), HttpReply(200, Row("SO-2")),
               HttpReply(404, ErrorDoc)}]

(***************************** handlers *************************************)
Finish(slot, calls, response) ==
  [slot EXCEPT !.pc = "done", !.calls = calls, !.response = response]

\* search(): from the request to the 400 or to the token POST
search(r, args) ==
  /\ Free(r)
  /\ LET query     == strip(args_get(args, "q", <<>>))
         search_by == args_get(args, "by", "name")
         slot      == [Idle EXCEPT !.route = "search", !.args = args]
     IN  reqs' = [reqs EXCEPT ![r] =
           IF query = <<>>
           THEN Finish(slot, <<>>, bad_request)
           ELSE [slot EXCEPT
                  !.pc = "await_token",
                  !.filter_expr = filter_expr_of(search_by, safe_query(query)),
                  !.calls = <<Issue(token_request(config))>>]]
  /\ UNCHANGED config

\* variant: a failed token POST is tried once more
search_token_retry(r, reply) ==
  /\ reqs[r].pc = "await_token"
  /\ reqs[r].route = "search"
  /\ LET calls == Answer(reqs[r].calls, reply)
         token == get_access_token(reply)
     IN  reqs' = [reqs EXCEPT ![r] =
           IF ~token.ok /\ Len(calls) < 2
           THEN [@ EXCEPT !.calls = Append(calls, Issue(token_request(config)))]
           ELSE IF ~token.ok
           THEN Finish(@, calls, except_response(token.exc))
           ELSE IF ~has_scheme(config.DATAVERSE_URL)
           THEN Finish(@, calls, except_response(Raise("MissingSchema").exc))
           ELSE [@ EXCEPT
                  !.pc = "await_data",
                  !.calls = Append(calls,
                     Issue(search_request(config, token.val,
                                          reqs[r].filter_expr, SELECT_COLS)))]]
  /\ UNCHANGED config

\* query_dataverse(): the token POST returns; the data GET is issued
search_token(r, reply) ==
  /\ reqs[r].pc = "await_token"
  /\ reqs[r].route = "search"
  /\ LET calls == Answer(reqs[r].calls, reply)
         token == get_access_token(reply)
     IN  reqs' = [reqs EXCEPT ![r] =
           IF ~token.ok
           THEN Finish(@, calls, except_response(token.exc))
           ELSE IF ~has_scheme(config.DATAVERSE_URL)
           THEN Finish(@, calls, except_response(Raise("MissingSchema").exc))
           ELSE [@ EXCEPT
                  !.pc = "await_data",
                  !.calls = Append(calls,
                     Issue(search_request(config, token.val,
                                          reqs[r].filter_expr, SELECT_COLS)))]]
  /\ UNCHANGED config

\* query_dataverse() and search(): the data GET returns
search_data(r, reply) ==
  /\ reqs[r].pc = "await_data"
  /\ reqs[r].route = "search"
  /\ LET calls   == Answer(reqs[r].calls, reply)
         records == query_dataverse(reply)
     IN  reqs' = [reqs EXCEPT ![r] =
           Finish(@, calls,
                  IF records.ok
                  THEN search_success(records.val)
                  ELSE except_response(records.exc))]
  /\ UNCHANGED config

\* get_order(): from the request to the token POST
get_order(r, order_id) ==
  /\ Free(r)
  /\ reqs' = [reqs EXCEPT ![r] =
        [Idle EXCEPT !.route = "order", !.order_id = order_id,
                     !.pc = "await_token",
                     !.calls = <<Issue(token_request(config))>>]]
  /\ UNCHANGED config

\* get_order(): the token POST returns; the data GET is issued
order_token(r, reply) ==
  /\ reqs[r].pc = "await_token"
  /\ reqs[r].route = "order"
  /\ LET calls == Answer(reqs[r].calls, reply)
         token == get_access_token(reply)
     IN  reqs' = [reqs EXCEPT ![r] =
           IF ~token.ok
           THEN Finish(@, calls, except_response(token.exc))
           ELSE IF ~has_scheme(config.DATAVERSE_URL)
           THEN Finish(@, calls, except_response(Raise("MissingSchema").exc))
           ELSE [@ EXCEPT
                  !.pc = "await_data",
                  !.calls = Append(calls,
                     Issue(order_request(config, token.val, reqs[r].order_id)))]]
  /\ UNCHANGED config

\* get_order(): the data GET returns
order_data(r, reply) ==
  /\ reqs[r].pc = "await_data"
  /\ reqs[r].route = "order"
  /\ LET calls == Answer(reqs[r].calls, reply)
         doc   == order_fetch(reply)
     IN  reqs' = [reqs EXCEPT ![r] =
           Finish(@, calls,
                  IF doc.ok
                  THEN Response(200, doc.val)
                  ELSE except_response(doc.exc))]
  /\ UNCHANGED config

\* variant: health reports a missing service URL
health_configured(r) ==
  /\ Free(r)
  /\ reqs' = [reqs EXCEPT ![r] =
        Finish([Idle EXCEPT !.route = "health"], <<>>,
               IF has_scheme(config.DATAVERSE_URL)
               THEN health_response
               ELSE Response(503, JObj([status |-> JStr("unconfigured")])))]
  /\ UNCHANGED config

\* health()
health(r) ==
  /\ Free(r)
  /\ reqs' = [reqs EXCEPT ![r] =
        Finish([Idle EXCEPT !.route = "health"], <<>>, health_response)]
  /\ UNCHANGED config

\* the handler returns its (body, status) pair to Flask, which sends it; the
\* locals of the request are gone and the worker serves the next request
respond(r) ==
  /\ reqs[r].pc = "done"
  /\ reqs' = [reqs EXCEPT ![r] = Idle]
  /\ UNCHANGED config

(***************************** specifications *******************************)
Init ==
  /\ config \in Configs
  /\ reqs = [r \in Slots |-> Idle]

Step(E) ==
  \E r \in E.slots :
    \/ \E args \in E.args : search(r, args)
    \/ \E reply \in E.token : search_token(r, reply)
    \/ \E reply \in E.search : search_data(r, reply)
    \/ \E id \in E.ids : get_order(r, id)
    \/ \E reply \in E.token : order_token(r, reply)
    \/ \E reply \in E.order : order_data(r, reply)
    \/ health(r)
    \/ respond(r)

Next == Step(EnvFull)
Spec == Init /\ [][Next]_vars

NextFilter == Step(EnvFilter)
SpecFilter == Init /\ [][NextFilter]_vars

NextConc == Step(EnvConc)
SpecConc == Init /\ [][NextConc]_vars

(***************************** vocabulary of the properties ****************)
Done(r) == reqs[r].pc = "done"

HasField(response, k) ==
  response.body.t = "object" /\ k \in DOMAIN response.body.v

Field(response, k) == response.body.v[k]

\* the replies request r has received so far
RepliesOf(r) ==
  { reqs[r].calls[i].reply :
      i \in { k \in 1 .. Len(reqs[r].calls) :
                reqs[r].calls[k].reply.kind # "pending" } }

\* the data GETs request r has issued so far
DataCallsOf(r) ==
  { reqs[r].calls[i].request :
      i \in { k \in 1 .. Len(reqs[r].calls) :
                reqs[r].calls[k].request.method = "GET" } }

Is2xx(status) == 200 <= status /\ status <= 299
Is4xx5xx(status) == 400 <= status /\ status <= 599

\* q is missing, empty or whitespace only
Blank(args) ==
  \/ "q" \notin DOMAIN args
  \/ \A i \in 1 .. Len(args["q"]) : args["q"][i] \in Whitespace

\* t is q without its leading and trailing whitespace
IsTrimOf(t, q) ==
  \E i \in 1 .. Len(q) + 1 : \E j \in 0 .. Len(q) :
    /\ t = SubSeq(q, i, j)
    /\ \A k \in 1 .. Len(q) : (k < i \/ k > j) => q[k] \in Whitespace
    /\ t # <<>> => (t[1] \notin Whitespace /\ t[Len(t)] \notin Whitespace)
    /\ t = <<>> => i > j

\* reading of a quote-doubled text: '' stands for ', a lone ' is an error
RECURSIVE Undouble(_)
Undouble(e) ==
  IF e = <<>> THEN <<>>
  ELSE IF Head(e) # Quote THEN <<Head(e)>> \o Undouble(Tail(e))
  ELSE IF Len(e) >= 2 /\ e[2] = Quote
       THEN <<Quote>> \o Undouble(SubSeq(e, 3, Len(e)))
       ELSE <<"lone quote">>

\* OData reading of a filter text from position i on: the number of
\* contains( calls outside string literals, and whether the last literal
\* is closed
RECURSIVE ODataScan(_, _, _, _)
ODataScan(f, i, inLiteral, n) ==
  IF i > Len(f) THEN [closed |-> ~inLiteral, clauses |-> n]
  ELSE IF inLiteral
       THEN IF f[i] # Quote THEN ODataScan(f, i + 1, TRUE, n)
            ELSE IF i < Len(f) /\ f[i + 1] = Quote
                 THEN ODataScan(f, i + 2, TRUE, n)
                 ELSE ODataScan(f, i + 1, FALSE, n)
       ELSE IF f[i] = Quote THEN ODataScan(f, i + 1, TRUE, n)
            ELSE ODataScan(f, i + 1, FALSE,
                           IF f[i] = "contains(" THEN n + 1 ELSE n)

\* the columns of the three discriminators
OrderNumberColumn == "cr399_cr1e1_no"
ExternalDocumentColumn == "cr399_cr1e1_externaldocumentno"
CustomerReferenceColumn == "cr399_cr1e1_yourreference"

\* f is the single clause contains(column,'e') with e the trimmed q, quotes
\* doubled and nothing else changed
IsContainsClause(f, column, q) ==
  /\ Len(f) >= 6
  /\ SubSeq(f, 1, 4) = <<"contains(", column, ",", Quote>>
  /\ SubSeq(f, Len(f) - 1, Len(f)) = <<Quote, ")">>
  /\ IsTrimOf(Undouble(SubSeq(f, 5, Len(f) - 2)), q)
  /\ ODataScan(f, 1, FALSE, 0) = [closed |-> TRUE, clauses |-> 1]

\* a request of one of the two relaying routes that got past validation
Relays(r) ==
  \/ reqs[r].route = "order"
  \/ reqs[r].route = "search" /\ ~Blank(reqs[r].args)

\* the reply made get_access_token return a token
YieldsToken(reply) ==
  /\ reply.kind = "http"
  /\ ~Is4xx5xx(reply.status)
  /\ reply.body.t = "object"
  /\ "access_token" \in DOMAIN reply.body.v

(***************************** C1 *******************************************)
\* C1 as stated: a finished relaying request that received an upstream reply
\* with a status outside 200-299 answers 502 with `detail` equal to the body
\* text of that reply.
C1_AsStated ==
  \A r \in Slots : \A reply \in RepliesOf(r) :
    (Done(r) /\ Relays(r) /\ reply.kind = "http" /\ ~Is2xx(reply.status))
    => /\ reqs[r].response.status = 502
       /\ HasField(reqs[r].response, "detail")
       /\ Field(reqs[r].response, "detail") = JStr(reply.body)

\* C1 amended: a finished relaying request answers 502 exactly when it
\* received an upstream reply with a status in 400-599, and then `detail`
\* is the body text of that reply; 1xx, 3xx and 600 replies are not failures.
C1_UpstreamError ==
  \A r \in Slots :
    (Done(r) /\ Relays(r))
    => /\ \A reply \in RepliesOf(r) :
            (reply.kind = "http" /\ Is4xx5xx(reply.status))
            => /\ reqs[r].response.status = 502
               /\ HasField(reqs[r].response, "error")
               /\ HasField(reqs[r].response, "detail")
               /\ Field(reqs[r].response, "detail") = JStr(reply.body)
       /\ reqs[r].response.status = 502
            => \E reply \in RepliesOf(r) :
                 reply.kind = "http" /\ Is4xx5xx(reply.status)

C1_Witness ==
  \E r \in Slots :
    /\ Done(r)
    /\ reqs[r].route = "order"
    /\ Len(reqs[r].calls) = 2
    /\ reqs[r].calls[2].reply = HttpReply(499, ErrorDoc)
    /\ reqs[r].response.status = 502
    /\ Field(reqs[r].response, "detail") = JStr(ErrorDoc)

(***************************** C2 *******************************************)
\* the rows of the `value` array in the reply to the data GET of request r
UpstreamRows(r) ==
  LET body == reqs[r].calls[2].reply.body
  IN  IF "value" \in DOMAIN body.v THEN body.v["value"].v ELSE <<>>

SearchOk(r) ==
  Done(r) /\ reqs[r].route = "search" /\ reqs[r].response.status = 200

\* C2 as stated: a 200 response of /api/search has `count` equal to the
\* length of `data`, and `data` has at most 50 rows whatever the upstream
\* returned.
C2_AsStated ==
  \A r \in Slots :
    SearchOk(r)
    => /\ HasField(reqs[r].response, "count")
       /\ HasField(reqs[r].response, "data")
       /\ Field(reqs[r].response, "count").v = Len(Field(reqs[r].response, "data").v)
       /\ Len(Field(reqs[r].response, "data").v) <= Top

\* C2 amended: a 200 response of /api/search has `count` equal to the length
\* of `data`; the data GET asks the upstream for at most 50 rows ($top=50),
\* and `data` has as many rows as the upstream returned, more than 50
\* included.
C2_CountAndCap ==
  \A r \in Slots :
    /\ reqs[r].route = "search"
         => \A call \in DataCallsOf(r) : call.url.top = 50
    /\ SearchOk(r)
         => /\ HasField(reqs[r].response, "count")
            /\ HasField(reqs[r].response, "data")
            /\ Field(reqs[r].response, "count")
                 = JNum(Len(Field(reqs[r].response, "data").v))
            /\ Len(Field(reqs[r].response, "data").v) = Len(UpstreamRows(r))

C2_Witness ==
  \E r \in Slots :
    /\ SearchOk(r)
    /\ Len(UpstreamRows(r)) = Top + 1
    /\ Field(reqs[r].response, "count") = JNum(Top + 1)

(***************************** C3 *******************************************)
\* C3: a /api/search request whose q is missing, empty or whitespace only
\* never has an outbound call, and finishes with status 400 and an `error`
\* field.
C3_BlankQuery ==
  \A r \in Slots :
    (reqs[r].route = "search" /\ Blank(reqs[r].args))
    => /\ reqs[r].calls = <<>>
       /\ Done(r)
       /\ reqs[r].response.status = 400
       /\ HasField(reqs[r].response, "error")

C3_Witness ==
  \E r \in Slots :
    /\ Done(r)
    /\ reqs[r].route = "search"
    /\ "q" \in DOMAIN reqs[r].args
    /\ reqs[r].args["q"] = <<" ", "\t", " ">>
    /\ reqs[r].response.status = 400
    /\ reqs[r].calls = <<>>

(***************************** C4 *******************************************)
ColumnOf(by) ==
  IF by = "external" THEN ExternalDocumentColumn
  ELSE IF by = "reference" THEN CustomerReferenceColumn
  ELSE OrderNumberColumn

Recognized == {"name", "external", "reference"}

\* C4: for a non-blank q and by in {name, external, reference}, the filter
\* of the data GET is exactly one contains(column,'...') clause on the
\* column of the discriminator, whose literal is the trimmed q with every
\* quote doubled and nothing else changed.
C4_FilterClause ==
  \A r \in Slots :
    (/\ reqs[r].route = "search"
     /\ ~Blank(reqs[r].args)
     /\ "by" \in DOMAIN reqs[r].args
     /\ reqs[r].args["by"] \in Recognized)
    => \A call \in DataCallsOf(r) :
         IsContainsClause(call.url.filter, ColumnOf(reqs[r].args["by"]),
                          reqs[r].args["q"])

C4_Witness ==
  \E r \in Slots :
    /\ reqs[r].route = "search"
    /\ reqs[r].args = [q |-> <<" ", "a", Quote>>, by |-> "reference"]
    /\ \E call \in DataCallsOf(r) :
         call.url.filter = <<"contains(", "cr399_cr1e1_yourreference", ",",
                             Quote, "a", Quote, Quote, Quote, ")">>

(***************************** C5 *******************************************)
\* a timeout, or a 2xx reply whose body is not JSON
TransportFailure(reply) ==
  \/ reply.kind = "timeout"
  \/ reply.kind = "http" /\ Is2xx(reply.status) /\ reply.body.t = "garbage"

\* C5: a finished relaying request that met a timeout or a 2xx reply with a
\* non-JSON body, on either call, answers 500 with an `error` field and no
\* `detail` field.
C5_TransportError ==
  \A r \in Slots : \A reply \in RepliesOf(r) :
    (Done(r) /\ Relays(r) /\ TransportFailure(reply))
    => /\ reqs[r].response.status = 500
       /\ HasField(reqs[r].response, "error")
       /\ ~HasField(reqs[r].response, "detail")

C5_Witness ==
  \E r \in Slots :
    /\ Done(r)
    /\ reqs[r].route = "search"
    /\ Len(reqs[r].calls) = 2
    /\ reqs[r].calls[2].reply = HttpReply(200, Garbage("<html>"))
    /\ reqs[r].response.status = 500

(***************************** C6 *******************************************)
\* C6: the outbound calls of a relaying request are, in order, one token
\* POST and at most one data GET; the GET exists only once the POST has
\* returned a token, a call that failed is the last one, and the request
\* finishes only after its last call was answered.
C6_CallSequence ==
  \A r \in Slots :
    Relays(r)
    => LET calls == reqs[r].calls
       IN  /\ Len(calls) \in {1, 2}
           /\ calls[1].request = token_request(config)
           /\ Len(calls) = 2
                => /\ calls[2].request.method = "GET"
                   /\ YieldsToken(calls[1].reply)
                   /\ calls[2].request.headers.Authorization[2]
                        = calls[1].reply.body.v["access_token"].v
           /\ Len(calls) = 1 /\ calls[1].reply.kind # "pending"
                => Done(r)
           /\ Done(r) => calls[Len(calls)].reply.kind # "pending"

C6_Witness ==
  \E r \in Slots :
    /\ Done(r)
    /\ reqs[r].route = "search"
    /\ Len(reqs[r].calls) = 2
    /\ reqs[r].calls[1].reply = HttpReply(300, TokenDoc("tokB"))
    /\ reqs[r].calls[2].reply = Timeout

(***************************** C7 *******************************************)
\* C7: for a non-blank q and a `by` that is absent or not one of name,
\* external, reference, the request is not refused (no 400, the token POST
\* is issued) and its filter is the contains clause on the order-number
\* column.
C7_Fallback ==
  \A r \in Slots :
    (/\ reqs[r].route = "search"
     /\ ~Blank(reqs[r].args)
     /\ ("by" \in DOMAIN reqs[r].args => reqs[r].args["by"] \notin Recognized))
    => /\ reqs[r].response.status # 400
       /\ Len(reqs[r].calls) >= 1
       /\ IsContainsClause(reqs[r].filter_expr, OrderNumberColumn,
                           reqs[r].args["q"])
       /\ \A call \in DataCallsOf(r) :
            call.url.filter = reqs[r].filter_expr

C7_Witness ==
  \E r \in Slots :
    /\ reqs[r].route = "search"
    /\ reqs[r].args = [q |-> <<"a">>, by |-> "bogus"]
    /\ \E call \in DataCallsOf(r) :
         call.url.filter = <<"contains(", "cr399_cr1e1_no", ",",
                             Quote, "a", Quote, ")">>

(***************************** C8 *******************************************)
\* the bearer token of every data GET of r is the access_token of the reply
\* to r's own token POST
OwnToken(r) ==
  \A i \in 2 .. Len(reqs[r].calls) :
    reqs[r].calls[i].request.headers.Authorization
      = <<"Bearer ", reqs[r].calls[1].reply.body.v["access_token"].v>>

\* what request r was given: its route, its inputs and the upstream replies
InputsOf(r) ==
  <<reqs[r].route, reqs[r].args, reqs[r].order_id,
    [i \in 1 .. Len(reqs[r].calls) |-> reqs[r].calls[i].reply]>>

\* two finished requests that were given the same answer the same
Deterministic ==
  \A r1, r2 \in Slots :
    (Done(r1) /\ Done(r2) /\ InputsOf(r1) = InputsOf(r2))
    => reqs[r1].response = reqs[r2].response

\* a step changes the state of one request only, and never the configuration
Isolated ==
  /\ config' = config
  /\ \A r1, r2 \in Slots :
       (r1 # r2 /\ reqs'[r1] # reqs[r1]) => reqs'[r2] = reqs[r2]

\* C8: in every interleaving of requests the configuration never changes, a
\* step of one request leaves the others untouched, the bearer token of a
\* data GET is the one the same request's token POST returned, and a
\* response depends only on the request's own inputs and replies.
C8_NoSharedState ==
  /\ [](\A r \in Slots : OwnToken(r))
  /\ []Deterministic
  /\ [][Isolated]_vars

C8_Witness ==
  \E r1, r2 \in Slots :
    /\ reqs[r1].pc = "await_data"
    /\ reqs[r2].pc = "await_data"
    /\ reqs[r1].calls[2].request.headers.Authorization = <<"Bearer ", "tokA">>
    /\ reqs[r2].calls[2].request.headers.Authorization = <<"Bearer ", "tokB">>

(***************************** C9 *******************************************)
\* C9: a /health request finishes at once with status 200 and the body
\* {status: "ok"} and has no outbound call, whatever the configuration and
\* whatever the other requests got from the upstream.
C9_Health ==
  \A r \in Slots :
    reqs[r].route = "health"
    => /\ Done(r)
       /\ reqs[r].calls = <<>>
       /\ reqs[r].response.status = 200
       /\ reqs[r].response.body = JObj([status |-> JStr("ok")])

C9_Witness ==
  \E r1, r2 \in Slots :
    /\ config.DATAVERSE_URL = None
    /\ reqs[r1].route = "health"
    /\ reqs[r1].response.status = 200
    /\ Done(r2)
    /\ reqs[r2].response.status = 502

(***************************** C10 ******************************************)
\* C10: when the token POST and the data GET of a /api/search request both
\* return 2xx and the body of the latter is a JSON object, the response is
\* 200 with `data` equal to the `value` array of that body, rows and order
\* unchanged, and with data [] and count 0 when the body has no `value`.
C10_ValuePassThrough ==
  \A r \in Slots :
    (/\ Done(r)
     /\ reqs[r].route = "search"
     /\ Len(reqs[r].calls) = 2
     /\ \A i \in 1 .. 2 : /\ reqs[r].calls[i].reply.kind = "http"
                          /\ Is2xx(reqs[r].calls[i].reply.status)
     /\ reqs[r].calls[2].reply.body.t = "object")
    => LET body == reqs[r].calls[2].reply.body.v
       IN  /\ ("value" \in DOMAIN body /\ body["value"].t = "list")
                => /\ reqs[r].response.status = 200
                   /\ Field(reqs[r].response, "data") = body["value"]
           /\ "value" \notin DOMAIN body
                => /\ reqs[r].response.status = 200
                   /\ Field(reqs[r].response, "data") = JList(<<>>)
                   /\ Field(reqs[r].response, "count") = JNum(0)

C10_Witness ==
  \E r \in Slots :
    /\ Done(r)
    /\ reqs[r].route = "search"
    /\ Len(reqs[r].calls) = 2
    /\ reqs[r].calls[2].reply
         = HttpReply(200, JObj([value |-> JList(<<Row("SO-2"), Row("SO-1")>>)]))
    /\ reqs[r].response.status = 200
    /\ Field(reqs[r].response, "data") = JList(<<Row("SO-2"), Row("SO-1")>>)

====
